---- MODULE Spec2Model ----
(***************************************************************************)
(* HotSkills: the read-through caching and time-series reshaping layer.   *)
(*                                                                         *)
(* Two deployments of the same endpoints are modelled: the modular one    *)
(* (src/app/... with src/helpers.py) and the monolithic one (src/main.py). *)
(* The Snapshot Store (PostgreSQL) and the Cache Store (Redis) are the    *)
(* environment: every call to them may succeed or raise.                  *)
(*                                                                         *)
(* Time is counted in hours: a timestamp is an integer number of hours,   *)
(* its calendar date is the quotient by HoursPerDay.                      *)
(***************************************************************************)
EXTENDS Integers, Sequences, FiniteSets, TLC

VARIABLES
    variant,    \* which program is deployed: "modular" or "monolith"
    store,      \* Snapshot Store: table name -> sequence of rows (insertion order)
    now,        \* NOW() of the Snapshot Store, in hours
    languages,  \* app.state.languages, loaded at startup
    cache,      \* Cache Store: key -> [val: JSON text, ex: expiry], live keys only
    req,        \* request slot -> the handler invocation running in it
    endpoints   \* the requests (handler, argument) the clients of this run send

vars == <<variant, store, now, languages, cache, req, endpoints>>

(***************************************************************************)
(* Bounds of the model.                                                    *)
(***************************************************************************)
MaxReq  == 2        \* request slots (requests in flight at once)
MaxKinds == 2       \* distinct requests (handler, argument) sent in one run
MaxRows == 2        \* rows a series table holds once the ingest has appended
MaxLen  == 3        \* rows of the table the reducer is checked on
Now0    == 1000     \* NOW() at the start: hour 16 of day 41
MaxClients == 5     \* request slots of the run that exhausts the pool

(***************************************************************************)
(* Program constants.                                                      *)
(***************************************************************************)
CACHE_TTL_HOUR == 3600
CACHE_TTL_DAY  == 86400
max_size       == 4
HoursPerDay    == 24
HourlyWindow   == 24      \* INTERVAL '24 hours'
DailyWindow    == 720     \* INTERVAL '30 days', in hours

Reqs == 1..MaxReq

Range(s) == {s[i] : i \in DOMAIN s}

(***************************************************************************)
(* Python values.  Every value whose truthiness or type the code tests    *)
(* carries its type: None, int, str, list, dict, and the JSON text that   *)
(* json.dumps produces and Redis stores.                                  *)
(***************************************************************************)
PyNone      == [t |-> "None"]
PyInt(n)    == [t |-> "int",  v |-> n]
PyStr(s)    == [t |-> "str",  v |-> s]
PyList(s)   == [t |-> "list", v |-> s]
PyDict(f)   == [t |-> "dict", v |-> f]

PyDecimal(n) == [t |-> "Decimal", v |-> n]   \* asyncpg's value of a numeric column

CACHE_TTL_NO_EXPIRY == PyNone

\* json.dumps taking whatever it is given.
Serializable_any(value) == TRUE

\* json.dumps(value) returns: it raises TypeError on a Decimal.  The values of
\* a row are one level down in the dict the handler builds.
Serializable(value) ==
    IF value.t = "dict"
    THEN \A k \in DOMAIN value.v :
            ~("t" \in DOMAIN value.v[k] /\ value.v[k].t = "Decimal")
    ELSE value.t # "Decimal"

\* json.dumps(value), when it returns: the JSON text of value; never the empty
\* string.
json_dumps(value) == [t |-> "json", v |-> value]

\* json.loads(text): the value a JSON text denotes.
json_loads(text) == text.v

\* bool(x), as `if x:` evaluates it.
Truthy(x) ==
    CASE x.t = "None" -> FALSE
      [] x.t = "int"  -> x.v # 0
      [] x.t = "str"  -> x.v # ""
      [] x.t = "list" -> x.v # <<>>
      [] x.t = "dict" -> DOMAIN x.v # {}
      [] x.t = "json" -> TRUE

\* str(date) and str(datetime): "YYYY-MM-DD" and "YYYY-MM-DD HH:MM:SS".
Date(d)     == [t |-> "date", d |-> d]
DateTime(ts) == [t |-> "datetime", ts |-> ts]
str(x) ==
    IF x.t = "date"
    THEN [fmt |-> "YYYY-MM-DD", ymd |-> x.d]
    ELSE [fmt |-> "YYYY-MM-DD HH:MM:SS", ymd |-> x.ts \div HoursPerDay,
          hms |-> x.ts % HoursPerDay]

(***************************************************************************)
(* Snapshot Store queries.                                                 *)
(***************************************************************************)
LanguagesTable   == "vacancies_statistics.languages"
ProfessionsTable == "vacancies_statistics.professions"

\* date::date
DateOf(ts) == ts \div HoursPerDay

\* WHERE date >= NOW() - INTERVAL w
InWindow(rows, t, w) == {i \in DOMAIN rows : rows[i].date >= t - w}

\* SELECT <date expression>, <columns>
Select(row, date, columns) ==
    [c \in {"date"} \cup Range(columns) |-> IF c = "date" THEN date ELSE row[c]]

\* The elements of a finite set of integers in ascending order.
RECURSIVE Ascending(_)
Ascending(S) ==
    IF S = {} THEN <<>>
    ELSE LET m == CHOOSE x \in S : \A y \in S : x <= y
         IN <<m>> \o Ascending(S \ {m})

\* fetch_hourly with `date > NOW() - INTERVAL '24 hours'`.
fetch_hourly_strict(rows, columns, t) ==
    LET I == {i \in DOMAIN rows : rows[i].date > t - HourlyWindow}
        n == Cardinality(I)
        Orders == {p \in [1..n -> I] :
                     /\ \A j, k \in 1..n : j # k => p[j] # p[k]
                     /\ \A j \in 1..(n - 1) : rows[p[j]].date <= rows[p[j + 1]].date}
    IN {[j \in 1..n |-> Select(rows[p[j]], DateTime(rows[p[j]].date), columns)] :
          p \in Orders}

\* fetch_hourly: every row of the last 24 hours, ORDER BY date ASC.  SQL leaves
\* the order of rows with equal date open: the result is any such order.
fetch_hourly(rows, columns, t) ==
    LET I == InWindow(rows, t, HourlyWindow)
        n == Cardinality(I)
        Orders == {p \in [1..n -> I] :
                     /\ \A j, k \in 1..n : j # k => p[j] # p[k]
                     /\ \A j \in 1..(n - 1) : rows[p[j]].date <= rows[p[j + 1]].date}
    IN {[j \in 1..n |-> Select(rows[p[j]], DateTime(rows[p[j]].date), columns)] :
          p \in Orders}

\* fetch_daily with ROW_NUMBER() ... ORDER BY date ASC: the earliest row of a date.
fetch_daily_earliest(rows, columns, t) ==
    LET I == InWindow(rows, t, DailyWindow)
        Days == {DateOf(rows[i].date) : i \in I}
        Rn1(d) == {i \in I : /\ DateOf(rows[i].date) = d
                             /\ \A j \in I : DateOf(rows[j].date) = d
                                               => rows[i].date <= rows[j].date}
        Picks == {f \in [Days -> I] : \A d \in Days : f[d] \in Rn1(d)}
        order == Ascending(Days)
    IN {[j \in 1..Len(order) |-> Select(rows[f[order[j]]], Date(order[j]), columns)] :
          f \in Picks}

\* fetch_daily: of the rows of the last 30 days, the row numbered 1 in its
\* calendar date by ORDER BY date DESC, in ascending date order.  Among rows of
\* one date with the same latest timestamp, ROW_NUMBER picks any.
fetch_daily(rows, columns, t) ==
    LET I == InWindow(rows, t, DailyWindow)
        Days == {DateOf(rows[i].date) : i \in I}
        Rn1(d) == {i \in I : /\ DateOf(rows[i].date) = d
                             /\ \A j \in I : DateOf(rows[j].date) = d
                                               => rows[j].date <= rows[i].date}
        Picks == {f \in [Days -> I] : \A d \in Days : f[d] \in Rn1(d)}
        order == Ascending(Days)
    IN {[j \in 1..Len(order) |-> Select(rows[f[order[j]]], Date(order[j]), columns)] :
          f \in Picks}

\* get_stat's loop without the `continue`: the statistics of every column.
get_stat_unfiltered(query, columns, daily, hourly) ==
    [column \in Range(columns) |->
        [daily  |-> [i \in DOMAIN daily  |-> <<str(daily[i].date),  daily[i][column]>>],
         hourly |-> [i \in DOMAIN hourly |-> <<str(hourly[i].date), hourly[i][column]>>]]]

\* get_stat's loop: the statistics of the columns the query lets through.
get_stat(query, columns, daily, hourly) ==
    [column \in {c \in Range(columns) : ~(Truthy(query) /\ query # PyStr(c))} |->
        [daily  |-> [i \in DOMAIN daily  |-> <<str(daily[i].date),  daily[i][column]>>],
         hourly |-> [i \in DOMAIN hourly |-> <<str(hourly[i].date), hourly[i][column]>>]]]

\* SELECT * FROM <table> ORDER BY date DESC LIMIT 1: <<>> or one row with the
\* greatest date (any of them when several share it).
fetch_last_row(rows) ==
    IF rows = <<>> THEN {<<>>}
    ELSE {<<rows[i]>> : i \in {i \in DOMAIN rows :
                                 \A j \in DOMAIN rows : rows[j].date <= rows[i].date}}

\* SELECT code, name, color FROM programming_languages: the rows as stored.
load_languages_unordered(rows) ==
    [j \in DOMAIN rows |->
        [code |-> rows[j].code, name |-> rows[j].name, color |-> rows[j].color]]

\* SELECT code, name, color FROM programming_languages ORDER BY id
load_languages(rows) ==
    LET order == Ascending({rows[i].id : i \in DOMAIN rows})
        ById(n) == CHOOSE i \in DOMAIN rows : rows[i].id = n
    IN [j \in 1..Len(order) |->
          [code |-> rows[ById(order[j])].code, name |-> rows[ById(order[j])].name,
           color |-> rows[ById(order[j])].color]]

\* SELECT code, name FROM programming_languages WHERE code = $1
fetch_language(rows, code) ==
    LET I == {i \in DOMAIN rows : rows[i].code = code}
    IN IF I = {} THEN <<>>
       ELSE LET i == CHOOSE i \in I : TRUE
            IN <<[code |-> rows[i].code, name |-> rows[i].name]>>

(***************************************************************************)
(* Cache Store (Redis) and the helpers of src/helpers.py.                 *)
(***************************************************************************)
\* redis_pool.get(key): the stored text, or None.
redis_get(c, key) == IF key \in DOMAIN c THEN c[key].val ELSE PyNone

\* SET key text NX: the write is dropped when the key is already there.
redis_set_nx(c, key, text, expire) ==
    IF key \in DOMAIN c THEN c
    ELSE [k \in DOMAIN c \cup {key} |-> IF k = key THEN [val |-> text, ex |-> expire] ELSE c[k]]

\* redis_pool.set(key, text, ex=expire)
redis_set(c, key, text, expire) ==
    [k \in DOMAIN c \cup {key} |-> IF k = key THEN [val |-> text, ex |-> expire] ELSE c[k]]

\* helpers.get_cache: the decoded value, or None when Redis has nothing.
get_cache(c, key) ==
    LET cached == redis_get(c, key)
    IN IF Truthy(cached) THEN json_loads(cached) ELSE PyNone

\* helpers.set_cache, when Redis accepts the write.
set_cache(c, key, value, expire) == redis_set(c, key, json_dumps(value), expire)

\* What the handler's `if cached:` tests and what it then returns.  The modular
\* handlers test the value get_cache decoded; the monolithic ones test the text
\* Redis returned and decode it afterwards.
cached_value_in(v, c, key) ==
    IF v = "modular" THEN get_cache(c, key) ELSE redis_get(c, key)
cached_content_in(v, c, key) ==
    IF v = "modular" THEN get_cache(c, key) ELSE json_loads(redis_get(c, key))

\* The same, in the deployment that is running.
cached_value(c, key) == cached_value_in(variant, c, key)
cached_content(c, key) == cached_content_in(variant, c, key)

(***************************************************************************)
(* Responses.                                                              *)
(***************************************************************************)
JSONResponse(content) == [status |-> 200, content |-> content]

\* The error body returned without status_code=500: the default status.
error_response_default(e) == [status |-> 200, content |-> PyDict([error |-> e])]

\* return JSONResponse(status_code=500, content={"error": str(e)})
error_response(e) == [status |-> 500, content |-> PyDict([error |-> e])]

\* An exception no handler catches: the framework answers 500.
InternalServerError == [status |-> 500, content |-> PyStr("Internal Server Error")]

\* HTMLResponse(content="Страница не найдена") without status_code: a 200.
NotFound_default == [status |-> 200, content |-> PyStr("not found")]

\* HTMLResponse(content="Страница не найдена", status_code=404)
NotFound == [status |-> 404, content |-> PyStr("not found")]

(***************************************************************************)
(* Requests.                                                               *)
(***************************************************************************)
Idle ==
    [h      |-> "idle",     \* handler
     arg    |-> PyNone,     \* query (vacancy-statistics) or lang (page)
     pc     |-> "idle",
     key    |-> "",         \* cache_key
     conn   |-> FALSE,      \* holds a pool connection
     result |-> PyNone,     \* result / salaries_last_row_dict / skills
     daily  |-> <<>>,       \* rows of fetch_daily, while fetch_hourly runs
     row    |-> <<>>,       \* the programming_languages row of the page
     resp   |-> <<>>,       \* the response, once returned
     \* history of the request
     found  |-> PyNone,     \* what Redis held under key at the cache get
     db     |-> 0,          \* Snapshot Store calls issued (acquire and queries)
     sets   |-> 0,          \* Cache Store sets issued
     raised |-> "",         \* the call that raised: "get", "set", "store", "encode"
     src    |-> <<>>]       \* the (table, rows, NOW(), columns, kind) of each query

PoolUsed == Cardinality({r \in DOMAIN req : req[r].conn})

\* The exception ends the request while the connection stays checked out.
Raise_holding(rq, call, exc, inTry) ==
    [rq EXCEPT !.pc = "done", !.raised = call,
               !.resp = <<IF inTry /\ exc = "PostgresError"
                          THEN error_response(exc) ELSE InternalServerError>>]

\* The exception leaves the `async with` (the connection goes back to the pool);
\* `except PostgresError` answers it when the call was inside the try, and
\* anything else reaches the framework.
Raise(rq, call, exc, inTry) ==
    [rq EXCEPT !.pc = "done", !.conn = FALSE, !.raised = call,
               !.resp = <<IF inTry /\ exc = "PostgresError"
                          THEN error_response(exc) ELSE InternalServerError>>]

Return(rq, response) == [rq EXCEPT !.pc = "done", !.conn = FALSE, !.resp = <<response>>]

\* cache_key = f"vacancy-statistics:{query or 'all'}"
vacancy_cache_key(query) ==
    "vacancy-statistics:" \o (IF Truthy(query) THEN query.v ELSE "all")

\* cache_key = f"skills:{row['name']}"
skills_cache_key_name(row) == "skills:" \o row.name

\* cache_key = f"skills:{row['code']}"
skills_cache_key(row) == "skills:" \o row.code

\* A slot is free before its first request and after each response.
Free(r) == req[r].pc \in {"idle", "done"}

\* A request arrives and is served in the first free slot.
Start(r, h, arg) ==
    /\ Free(r)
    /\ \A q \in DOMAIN req : q < r => ~Free(q)
    /\ <<h, arg>> \in endpoints
    /\ req' = [req EXCEPT ![r] = [Idle EXCEPT !.h = h, !.arg = arg,
                                   !.pc = IF h = "page" THEN "acquire" ELSE "get"]]
    /\ UNCHANGED <<variant, store, now, languages, cache, endpoints>>

\* The cache lookup that opens an API handler: a hit returns the cached
\* content, a miss goes on to missPc.  A RedisError is caught nowhere.
Lookup(r, key, missPc, ok) ==
    /\ req[r].pc = "get"
    /\ LET rq == [req[r] EXCEPT !.key = key, !.found = redis_get(cache, key)]
       IN req' = [req EXCEPT ![r] =
            IF ~ok THEN Raise([rq EXCEPT !.found = PyNone], "get", "RedisError", FALSE)
            ELSE IF Truthy(cached_value(cache, key))
                 THEN Return(rq, JSONResponse(cached_content(cache, key)))
                 ELSE [rq EXCEPT !.pc = missPc]]
    /\ UNCHANGED <<variant, store, now, languages, cache, endpoints>>

\* The handler takes a connection and, holding it, asks the pool for a second
\* one before going on.
Acquire_nested(r, entered, inTry, exc) ==
    /\ req[r].pc = "acquire"
    /\ PoolUsed < max_size
    /\ req' = [req EXCEPT ![r] =
            IF exc # "" THEN Raise([@ EXCEPT !.db = @ + 1], "store", exc, inTry)
            ELSE IF ~req[r].conn THEN [@ EXCEPT !.conn = TRUE, !.db = @ + 1]
            ELSE [entered EXCEPT !.conn = TRUE, !.db = @ + 1]]
    /\ UNCHANGED <<variant, store, now, languages, cache, endpoints>>

\* async with db_pool.acquire() as conn: waits while max_size connections are
\* out; establishing the connection may fail.  `entered` is the request as it
\* stands at the first await inside the block.
Acquire(r, entered, inTry, exc) ==
    /\ req[r].pc = "acquire"
    /\ PoolUsed < max_size
    /\ req' = [req EXCEPT ![r] =
            IF exc # "" THEN Raise([@ EXCEPT !.db = @ + 1], "store", exc, inTry)
            ELSE [entered EXCEPT !.conn = TRUE, !.db = @ + 1]]
    /\ UNCHANGED <<variant, store, now, languages, cache, endpoints>>

\* Leaving the `async with` block normally.
Release(r, nextPc) ==
    /\ req[r].pc = "release"
    /\ req' = [req EXCEPT ![r] = [@ EXCEPT !.conn = FALSE, !.pc = nextPc]]
    /\ UNCHANGED <<variant, store, now, languages, cache, endpoints>>

\* The cache write that closes a handler, then its return.  json.dumps runs
\* first: its TypeError is caught by nobody and no set is issued.
\* helpers.set_cache logs a RedisError and goes on; the monolithic handlers
\* call redis_pool.set bare, so the error leaves the handler.
Store(r, expire, response, ok) ==
    /\ req[r].pc = "set"
    /\ LET rq == [req[r] EXCEPT !.sets = @ + 1]
           encoded == Serializable(req[r].result)
       IN /\ req' = [req EXCEPT ![r] =
                IF ~encoded THEN Raise(req[r], "encode", "TypeError", TRUE)
                ELSE IF ok \/ variant = "modular"
                THEN [Return(rq, response) EXCEPT !.raised = IF ok THEN "" ELSE "set"]
                ELSE Raise(rq, "set", "RedisError", TRUE)]
          /\ cache' = IF encoded /\ ok THEN set_cache(cache, rq.key, rq.result, expire)
                      ELSE cache
    /\ UNCHANGED <<variant, store, now, languages, endpoints>>

(***************************************************************************)
(* GET /api/salaries                                                       *)
(***************************************************************************)
SalGet(r, ok) ==
    /\ req[r].h = "salaries"
    /\ Lookup(r, "salaries", "acquire", ok)

SalAcquire(r, exc) ==
    /\ req[r].h = "salaries"
    /\ Acquire(r, [req[r] EXCEPT !.pc = "query"], TRUE, exc)

\* dict(salaries_last_row) if salaries_last_row else {}, without the pop.
salaries_last_row_dict_dated(last) ==
    IF last = <<>> THEN PyDict(<<>>)
    ELSE PyDict([c \in DOMAIN last[1] |-> last[1][c]])

\* dict(salaries_last_row) if salaries_last_row else {}, then pop('date')
salaries_last_row_dict(last) ==
    IF last = <<>> THEN PyDict(<<>>)
    ELSE PyDict([c \in DOMAIN last[1] \ {"date"} |-> last[1][c]])

\* conn.fetchrow("SELECT * FROM salaries ORDER BY date DESC LIMIT 1")
SalQuery(r, ok) ==
    /\ req[r].h = "salaries"
    /\ req[r].pc = "query"
    /\ LET rq == [req[r] EXCEPT !.db = @ + 1]
       IN \E last \in fetch_last_row(store["salaries"]) :
            req' = [req EXCEPT ![r] =
                IF ~ok THEN Raise(rq, "store", "PostgresError", TRUE)
                ELSE [rq EXCEPT !.result = salaries_last_row_dict(last), !.pc = "release",
                                !.src = Append(@, <<"salaries", store["salaries"], now, <<"*">>, "last">>)]]
    /\ UNCHANGED <<variant, store, now, languages, cache, endpoints>>

SalRelease(r) ==
    /\ req[r].h = "salaries"
    /\ Release(r, "set")

salaries_expire == PyInt(CACHE_TTL_HOUR)

SalSet(r, ok) ==
    /\ req[r].h = "salaries"
    /\ Store(r, salaries_expire, JSONResponse(req[r].result), ok)

(***************************************************************************)
(* GET /api/languages                                                      *)
(***************************************************************************)
LangGet(r, ok) ==
    /\ req[r].h = "languages"
    /\ req[r].pc = "get"
    /\ LET key == "languages"
           rq == [req[r] EXCEPT !.key = key, !.found = redis_get(cache, key)]
       IN req' = [req EXCEPT ![r] =
            IF ~ok THEN Raise([rq EXCEPT !.found = PyNone], "get", "RedisError", FALSE)
            ELSE IF Truthy(cached_value(cache, key))
                 THEN Return(rq, JSONResponse(cached_content(cache, key)))
                 \* languages = request.app.state.languages
                 ELSE [rq EXCEPT !.pc = "set", !.result = PyList(languages)]]
    /\ UNCHANGED <<variant, store, now, languages, cache, endpoints>>

languages_expire == CACHE_TTL_NO_EXPIRY

LangSet(r, ok) ==
    /\ req[r].h = "languages"
    /\ Store(r, languages_expire, JSONResponse(req[r].result), ok)

(***************************************************************************)
(* GET /api/vacancy-statistics and /api/vacancy-statistics/{query}         *)
(***************************************************************************)
\* langs = [lang["code"] for lang in request.app.state.languages]
langs == [i \in DOMAIN languages |-> languages[i].code]

\* query in langs or query is None
WantsLanguages(query) == (query.t = "str" /\ query.v \in Range(langs)) \/ query = PyNone

\* The professions statistics collected for every query.
WantsProfessions_always(query) == TRUE

\* query in ["software_developer", None]
WantsProfessions(query) == query = PyStr("software_developer") \/ query = PyNone

VacGet(r, ok) ==
    /\ req[r].h = "vacancy"
    /\ Lookup(r, vacancy_cache_key(req[r].arg), "acquire", ok)

VacAcquire(r, exc) ==
    /\ req[r].h = "vacancy"
    /\ Acquire(r, [req[r] EXCEPT
                      !.result = PyDict(<<>>),
                      !.pc = IF WantsLanguages(req[r].arg) THEN "lang_daily"
                             ELSE IF WantsProfessions(req[r].arg) THEN "prof_daily"
                             ELSE "release"], TRUE, exc)

\* The table and the columns of the get_stat call the request is in.
StatTable(rq)   == IF rq.pc \in {"lang_daily", "lang_hourly"}
                   THEN LanguagesTable ELSE ProfessionsTable
StatColumns(rq) == IF rq.pc \in {"lang_daily", "lang_hourly"}
                   THEN langs ELSE <<"software_developer">>

\* daily = await fetch_daily(conn, table, ', '.join(columns)); with no column
\* the SELECT list ends in a comma and PostgreSQL rejects the statement.
VacFetchDaily(r, ok) ==
    /\ req[r].h = "vacancy"
    /\ req[r].pc \in {"lang_daily", "prof_daily"}
    /\ LET rq == [req[r] EXCEPT !.db = @ + 1]
           table == StatTable(rq)
           columns == StatColumns(rq)
       IN \E daily \in fetch_daily(store[table], columns, now) :
            req' = [req EXCEPT ![r] =
                IF ~ok \/ columns = <<>> THEN Raise(rq, "store", "PostgresError", TRUE)
                ELSE [rq EXCEPT !.daily = daily,
                                !.pc = IF rq.pc = "lang_daily" THEN "lang_hourly"
                                       ELSE "prof_hourly",
                                !.src = Append(@, <<table, store[table], now, columns, "daily">>)]]
    /\ UNCHANGED <<variant, store, now, languages, cache, endpoints>>

\* hourly = await fetch_hourly(...), the rest of get_stat, and result.update
VacFetchHourly(r, ok) ==
    /\ req[r].h = "vacancy"
    /\ req[r].pc \in {"lang_hourly", "prof_hourly"}
    /\ LET rq == [req[r] EXCEPT !.db = @ + 1]
           table == StatTable(rq)
           columns == StatColumns(rq)
       IN \E hourly \in fetch_hourly(store[table], columns, now) :
            req' = [req EXCEPT ![r] =
                IF ~ok THEN Raise(rq, "store", "PostgresError", TRUE)
                ELSE [rq EXCEPT
                        !.result = PyDict(get_stat(rq.arg, columns, rq.daily, hourly)
                                          @@ rq.result.v),
                        !.daily = <<>>,
                        !.pc = IF rq.pc = "lang_hourly" /\ WantsProfessions(rq.arg)
                               THEN "prof_daily" ELSE "release",
                        !.src = Append(@, <<table, store[table], now, columns, "hourly">>)]]
    /\ UNCHANGED <<variant, store, now, languages, cache, endpoints>>

VacRelease(r) ==
    /\ req[r].h = "vacancy"
    /\ Release(r, "set")

vacancy_expire == PyInt(CACHE_TTL_HOUR)

VacSet(r, ok) ==
    /\ req[r].h = "vacancy"
    /\ Store(r, vacancy_expire, JSONResponse(req[r].result), ok)

(***************************************************************************)
(* GET /api/resume-statistics (modular deployment only)                    *)
(***************************************************************************)
ResGet(r, ok) ==
    /\ req[r].h = "resumes"
    /\ Lookup(r, "resume-statistics", "acquire", ok)

ResAcquire(r, exc) ==
    /\ req[r].h = "resumes"
    /\ Acquire(r, [req[r] EXCEPT !.pc = "daily"], TRUE, exc)

resumes_fetch_daily(rows, t)  == fetch_daily(rows, <<"software_developer">>, t)
resumes_fetch_hourly(rows, t) == fetch_hourly(rows, <<"software_developer">>, t)

ResFetchDaily(r, ok) ==
    /\ req[r].h = "resumes"
    /\ req[r].pc = "daily"
    /\ LET rq == [req[r] EXCEPT !.db = @ + 1]
       IN \E daily \in resumes_fetch_daily(store["resumes"], now) :
            req' = [req EXCEPT ![r] =
                IF ~ok THEN Raise(rq, "store", "PostgresError", TRUE)
                ELSE [rq EXCEPT !.daily = daily, !.pc = "hourly",
                                !.src = Append(@, <<"resumes", store["resumes"], now, <<"software_developer">>, "daily">>)]]
    /\ UNCHANGED <<variant, store, now, languages, cache, endpoints>>

ResFetchHourly(r, ok) ==
    /\ req[r].h = "resumes"
    /\ req[r].pc = "hourly"
    /\ LET rq == [req[r] EXCEPT !.db = @ + 1]
           daily == rq.daily
       IN \E hourly \in resumes_fetch_hourly(store["resumes"], now) :
            req' = [req EXCEPT ![r] =
                IF ~ok THEN Raise(rq, "store", "PostgresError", TRUE)
                ELSE [rq EXCEPT
                        !.result = PyDict([resumes |->
                            [daily  |-> [i \in DOMAIN daily |->
                                <<str(daily[i].date), daily[i]["software_developer"]>>],
                             hourly |-> [i \in DOMAIN hourly |->
                                <<str(hourly[i].date), hourly[i]["software_developer"]>>]]]),
                        !.daily = <<>>,
                        !.pc = "release",
                        !.src = Append(@, <<"resumes", store["resumes"], now, <<"software_developer">>, "hourly">>)]]
    /\ UNCHANGED <<variant, store, now, languages, cache, endpoints>>

ResRelease(r) ==
    /\ req[r].h = "resumes"
    /\ Release(r, "set")

resumes_expire == PyInt(CACHE_TTL_HOUR)

ResSet(r, ok) ==
    /\ req[r].h = "resumes"
    /\ Store(r, resumes_expire, JSONResponse(req[r].result), ok)

(***************************************************************************)
(* GET /{lang}: the page of one language with its hot skills               *)
(***************************************************************************)
\* lang.lower()
lower(s) == CASE s = "Python" -> "python" [] OTHER -> s

\* templates.TemplateResponse("lang.html", {code, name, skills})
TemplateResponse(row, skills) ==
    [status |-> 200,
     content |-> PyDict([code |-> row.code, name |-> row.name, skills |-> skills])]

PageAcquire(r, exc) ==
    /\ req[r].h = "page"
    /\ Acquire(r, [req[r] EXCEPT !.pc = "lookup"], FALSE, exc)

\* row = await conn.fetchrow("SELECT code, name FROM programming_languages
\* WHERE code = $1", lang.lower()); no row: 404
PageLookup(r, ok) ==
    /\ req[r].h = "page"
    /\ req[r].pc = "lookup"
    /\ LET rq == [req[r] EXCEPT !.db = @ + 1]
           row == fetch_language(store["programming_languages"], lower(rq.arg.v))
       IN req' = [req EXCEPT ![r] =
            IF ~ok THEN Raise(rq, "store", "PostgresError", FALSE)
            ELSE IF row = <<>> THEN Return(rq, NotFound)
            ELSE [rq EXCEPT !.row = row, !.key = skills_cache_key(row[1]), !.pc = "get"]]
    /\ UNCHANGED <<variant, store, now, languages, cache, endpoints>>

\* skills = await get_cache(redis_pool, cache_key), inside the `async with`.
\* The modular page tests the decoded skills, the monolithic one the text.
PageGet(r, ok) ==
    /\ req[r].h = "page"
    /\ req[r].pc = "get"
    /\ LET rq == [req[r] EXCEPT !.found = redis_get(cache, req[r].key)]
       IN req' = [req EXCEPT ![r] =
            IF ~ok THEN Raise(req[r], "get", "RedisError", FALSE)
            ELSE IF Truthy(cached_value(cache, rq.key))
                 THEN [rq EXCEPT !.result = cached_content(cache, rq.key), !.pc = "release"]
                 ELSE [rq EXCEPT !.pc = "query"]]
    /\ UNCHANGED <<variant, store, now, languages, cache, endpoints>>

\* skill_row = await conn.fetchrow(f"SELECT {code} FROM hot_skills ORDER BY date
\* DESC LIMIT 1"); a row with a non-empty value is decoded and cached, anything
\* else gives skills = [] and no cache write.
PageQuery(r, ok) ==
    /\ req[r].h = "page"
    /\ req[r].pc = "query"
    /\ LET rq == [req[r] EXCEPT !.db = @ + 1]
           code == rq.row[1].code
       IN \E skill_row \in fetch_last_row(store["hot_skills"]) :
            req' = [req EXCEPT ![r] =
                IF ~ok THEN Raise(rq, "store", "PostgresError", FALSE)
                ELSE IF skill_row # <<>> /\ Truthy(skill_row[1][code])
                     THEN [rq EXCEPT !.result = json_loads(skill_row[1][code]), !.pc = "set",
                                     !.src = Append(@, <<"hot_skills", store["hot_skills"], now, <<code>>, "last">>)]
                     ELSE [rq EXCEPT !.result = PyList(<<>>), !.pc = "release",
                                     !.src = Append(@, <<"hot_skills", store["hot_skills"], now, <<code>>, "last">>)]]
    /\ UNCHANGED <<variant, store, now, languages, cache, endpoints>>

\* The skills cached with the TTL of the hourly class.
skills_expire_hour == PyInt(CACHE_TTL_HOUR)

skills_expire == PyInt(CACHE_TTL_DAY)

\* await set_cache(redis_pool, cache_key, skills, expire=CACHE_TTL_DAY), still
\* inside the `async with`.
PageSet(r, ok) ==
    /\ req[r].h = "page"
    /\ req[r].pc = "set"
    /\ LET rq == [req[r] EXCEPT !.sets = @ + 1]
           encoded == Serializable(req[r].result)
       IN /\ req' = [req EXCEPT ![r] =
                IF ~encoded THEN Raise(req[r], "encode", "TypeError", FALSE)
                ELSE IF ok \/ variant = "modular"
                THEN [rq EXCEPT !.pc = "release", !.raised = IF ok THEN "" ELSE "set"]
                ELSE Raise(rq, "set", "RedisError", FALSE)]
          /\ cache' = IF encoded /\ ok
                      THEN set_cache(cache, rq.key, rq.result, skills_expire) ELSE cache
    /\ UNCHANGED <<variant, store, now, languages, endpoints>>

\* Leaving the `async with`, then rendering the page.
PageRelease(r) ==
    /\ req[r].h = "page"
    /\ req[r].pc = "release"
    /\ req' = [req EXCEPT ![r] = Return(@, TemplateResponse(@.row[1], @.result))]
    /\ UNCHANGED <<variant, store, now, languages, cache, endpoints>>

(***************************************************************************)
(* The environment: Redis expiry and the external ingest.                  *)
(***************************************************************************)
\* Redis drops an entry whose TTL has run out; an entry without TTL stays.
Expire(k) ==
    /\ k \in DOMAIN cache
    /\ cache[k].ex # PyNone
    /\ cache' = [j \in DOMAIN cache \ {k} |-> cache[j]]
    /\ UNCHANGED <<variant, store, now, languages, req, endpoints>>

\* One row of a series table: every metric column carries v.
SeriesRow(table, t, v) ==
    IF table = LanguagesTable THEN [date |-> t, python |-> v, go |-> v]
    ELSE [date |-> t, software_developer |-> v]

\* A collection run, one hour later, appends its row to a series table.
Ingest(table) ==
    /\ Len(store[table]) < MaxRows
    /\ now' = now + 1
    /\ store' = [store EXCEPT ![table] = Append(@, SeriesRow(table, now + 1, Len(@) + 1))]
    /\ UNCHANGED <<variant, languages, cache, req, endpoints>>

\* A collection run, one hour later, appends its row to salaries; the column
\* holds what the run wrote: an integer, or a numeric (a Decimal to asyncpg).
IngestSalaries(value) ==
    /\ Len(store["salaries"]) < MaxRows
    /\ now' = now + 1
    /\ store' = [store EXCEPT !["salaries"] = Append(@, [date |-> now + 1, python |-> value])]
    /\ UNCHANGED <<variant, languages, cache, req, endpoints>>

\* The reference table programming_languages is edited by hand.
Migrate(ref) ==
    /\ ref # store["programming_languages"]
    /\ store' = [store EXCEPT !["programming_languages"] = ref]
    /\ UNCHANGED <<variant, now, languages, cache, req, endpoints>>

\* A startup that fills an empty reference table with a default language.
Restart_seeding ==
    /\ \A r \in DOMAIN req : Free(r)
    /\ req' = [r \in DOMAIN req |-> Idle]
    /\ store' = IF store["programming_languages"] = <<>>
                THEN [store EXCEPT !["programming_languages"] =
                        <<[id |-> 1, code |-> "python", name |-> "Python", color |-> "#3572A5"]>>]
                ELSE store
    /\ languages' = load_languages(store'["programming_languages"])
    /\ UNCHANGED <<variant, now, cache, endpoints>>

\* The process is stopped once its requests have been answered and started
\* again: lifespan closes the pools, opens new ones and loads the languages.
\* Redis is another process and keeps what it holds.
Restart ==
    /\ \A r \in DOMAIN req : Free(r)
    /\ req' = [r \in DOMAIN req |-> Idle]
    /\ languages' = load_languages(store["programming_languages"])
    /\ UNCHANGED <<variant, store, now, cache, endpoints>>

(***************************************************************************)
(* The service: both deployments, all endpoints, small tables.             *)
(***************************************************************************)
Python == [id |-> 1, code |-> "python", name |-> "Python", color |-> "#3572A5"]
Go     == [id |-> 2, code |-> "go",     name |-> "Go",     color |-> "#00ADD8"]

\* hot_skills.<code>: the JSON text of the day's skills
SkillsText == json_dumps(PyList(<<"sql">>))

MkStore(ref, salaries, langRows, profRows, resumes, skills) ==
    ("programming_languages" :> ref) @@ ("salaries" :> salaries) @@
    (LanguagesTable :> langRows) @@ (ProfessionsTable :> profRows) @@
    ("resumes" :> resumes) @@ ("hot_skills" :> skills)

Queries == {PyNone, PyStr("python"), PyStr("software_developer"), PyStr("all")}
Pages   == {PyStr("Python"), PyStr("rust")}

Endpoints(v) ==
    {<<"salaries", PyNone>>, <<"languages", PyNone>>}
    \cup (IF v = "modular" THEN {<<"resumes", PyNone>>} ELSE {})
    \cup {<<"vacancy", query>> : query \in Queries}
    \cup {<<"page", lang>> : lang \in Pages}

\* The database before the first collection run, and a populated one.
EmptyStore == MkStore(<<>>, <<>>, <<>>, <<>>, <<>>, <<>>)
FullStore ==
    MkStore(<<Python, Go>>, <<[date |-> Now0 - 1, python |-> PyInt(100)]>>,
            <<SeriesRow(LanguagesTable, Now0 - 1, 1)>>,
            <<SeriesRow(ProfessionsTable, Now0 - 1, 1)>>,
            <<SeriesRow("resumes", Now0 - 1, 1)>>,
            <<[date |-> Now0 - 1, python |-> SkillsText, go |-> PyNone]>>)

Init ==
    /\ variant \in {"modular", "monolith"}
    /\ now = Now0
    /\ store \in {EmptyStore, FullStore}
    /\ languages = load_languages(store["programming_languages"])
    /\ cache = <<>>
    /\ req = [r \in Reqs |-> Idle]
    /\ endpoints \in {E \in SUBSET Endpoints(variant) : Cardinality(E) \in 1..MaxKinds}

Next ==
    \/ \E r \in Reqs : Start(r, "salaries", PyNone)
    \/ \E r \in Reqs : Start(r, "languages", PyNone)
    \/ \E r \in Reqs : Start(r, "resumes", PyNone)
    \/ \E r \in Reqs, query \in Queries : Start(r, "vacancy", query)
    \/ \E r \in Reqs, lang \in Pages : Start(r, "page", lang)
    \/ \E r \in Reqs, ok \in BOOLEAN : SalGet(r, ok)
    \/ \E r \in Reqs, exc \in {"", "PostgresError", "OSError"} : SalAcquire(r, exc)
    \/ \E r \in Reqs, ok \in BOOLEAN : SalQuery(r, ok)
    \/ \E r \in Reqs : SalRelease(r)
    \/ \E r \in Reqs, ok \in BOOLEAN : SalSet(r, ok)
    \/ \E r \in Reqs, ok \in BOOLEAN : LangGet(r, ok)
    \/ \E r \in Reqs, ok \in BOOLEAN : LangSet(r, ok)
    \/ \E r \in Reqs, ok \in BOOLEAN : VacGet(r, ok)
    \/ \E r \in Reqs, exc \in {"", "PostgresError", "OSError"} : VacAcquire(r, exc)
    \/ \E r \in Reqs, ok \in BOOLEAN : VacFetchDaily(r, ok)
    \/ \E r \in Reqs, ok \in BOOLEAN : VacFetchHourly(r, ok)
    \/ \E r \in Reqs : VacRelease(r)
    \/ \E r \in Reqs, ok \in BOOLEAN : VacSet(r, ok)
    \/ \E r \in Reqs, ok \in BOOLEAN : ResGet(r, ok)
    \/ \E r \in Reqs, exc \in {"", "PostgresError", "OSError"} : ResAcquire(r, exc)
    \/ \E r \in Reqs, ok \in BOOLEAN : ResFetchDaily(r, ok)
    \/ \E r \in Reqs, ok \in BOOLEAN : ResFetchHourly(r, ok)
    \/ \E r \in Reqs : ResRelease(r)
    \/ \E r \in Reqs, ok \in BOOLEAN : ResSet(r, ok)
    \/ \E r \in Reqs, exc \in {"", "PostgresError", "OSError"} : PageAcquire(r, exc)
    \/ \E r \in Reqs, ok \in BOOLEAN : PageLookup(r, ok)
    \/ \E r \in Reqs, ok \in BOOLEAN : PageGet(r, ok)
    \/ \E r \in Reqs, ok \in BOOLEAN : PageQuery(r, ok)
    \/ \E r \in Reqs, ok \in BOOLEAN : PageSet(r, ok)
    \/ \E r \in Reqs : PageRelease(r)
    \/ \E k \in DOMAIN cache : Expire(k)
    \/ Ingest(LanguagesTable)

Spec == Init /\ [][Next]_vars

(***************************************************************************)
(* The reducer: one request at a time over every small series table.  The *)
(* timestamps sit on both sides of the two windows and share dates.        *)
(***************************************************************************)
ReducerStamps ==
    {Now0 - d : d \in {0, 1, HourlyWindow, HourlyWindow + 1, DailyWindow, DailyWindow + 1}}

\* The candidate rows: a timestamp and the value v the collection run saw.
ReducerPoints == ReducerStamps \X {1, 2}

ReducerStore(points) ==
    MkStore(<<Python, Go>>, <<>>,
            [i \in DOMAIN points |->
                [date |-> points[i][1], python |-> points[i][2], go |-> 3 - points[i][2]]],
            [i \in DOMAIN points |->
                [date |-> points[i][1], software_developer |-> points[i][2]]],
            [i \in DOMAIN points |->
                [date |-> points[i][1], software_developer |-> 3 - points[i][2]]],
            <<>>)

InitReducer ==
    /\ variant \in {"modular", "monolith"}
    /\ now = Now0
    /\ \E n \in 0..MaxLen : \E points \in [1..n -> ReducerPoints] :
         store = ReducerStore(points)
    /\ languages = load_languages(store["programming_languages"])
    /\ cache = <<>>
    /\ req = [r \in Reqs |-> Idle]
    /\ endpoints \in {{e} : e \in Endpoints(variant) \cap
                                  {<<"vacancy", PyNone>>, <<"resumes", PyNone>>}}

NextReducer ==
    \/ Start(1, "vacancy", PyNone)
    \/ Start(1, "resumes", PyNone)
    \/ VacGet(1, TRUE)
    \/ VacAcquire(1, "")
    \/ VacFetchDaily(1, TRUE)
    \/ VacFetchHourly(1, TRUE)
    \/ VacRelease(1)
    \/ VacSet(1, TRUE)
    \/ ResGet(1, TRUE)
    \/ ResAcquire(1, "")
    \/ ResFetchDaily(1, TRUE)
    \/ ResFetchHourly(1, TRUE)
    \/ ResRelease(1)
    \/ ResSet(1, TRUE)

SpecReducer == InitReducer /\ [][NextReducer]_vars

(***************************************************************************)
(* The pool: more clients than connections, one endpoint per run, on a    *)
(* populated database.  Every Snapshot Store call may fail.               *)
(***************************************************************************)
Clients == 1..MaxClients

InitPool ==
    /\ variant \in {"modular", "monolith"}
    /\ now = Now0
    /\ store = FullStore
    /\ languages = load_languages(store["programming_languages"])
    /\ cache = <<>>
    /\ req = [r \in Clients |-> Idle]
    /\ endpoints \in {{<<"salaries", PyNone>>}, {<<"page", PyStr("Python")>>},
                      {<<"page", PyStr("rust")>>}}

NextPool ==
    \/ \E r \in Clients : Start(r, "salaries", PyNone)
    \/ \E r \in Clients, lang \in Pages : Start(r, "page", lang)
    \/ \E r \in Clients : SalGet(r, TRUE)
    \/ \E r \in Clients, exc \in {"", "OSError"} : SalAcquire(r, exc)
    \/ \E r \in Clients, ok \in BOOLEAN : SalQuery(r, ok)
    \/ \E r \in Clients : SalRelease(r)
    \/ \E r \in Clients : SalSet(r, TRUE)
    \/ \E r \in Clients, exc \in {"", "OSError"} : PageAcquire(r, exc)
    \/ \E r \in Clients, ok \in BOOLEAN : PageLookup(r, ok)
    \/ \E r \in Clients : PageGet(r, TRUE)
    \/ \E r \in Clients, ok \in BOOLEAN : PageQuery(r, ok)
    \/ \E r \in Clients : PageSet(r, TRUE)
    \/ \E r \in Clients : PageRelease(r)

SpecPool == InitPool /\ [][NextPool]_vars

\* The runs whose progress is checked: more requests than connections, to the
\* JSON handler (cache get, connection, query, cache set) and to the page
\* handler (connection first, its calls returning a value or an error).
InitLive ==
    /\ InitPool
    /\ endpoints \in {{<<"salaries", PyNone>>}, {<<"page", PyStr("rust")>>}}

\* db_pool.acquire() of the request in slot r returning, with a connection or
\* with the error of establishing one.
Acquiring(r) ==
    SalAcquire(r, "") \/ \E exc \in {"", "OSError"} : PageAcquire(r, exc)

\* Any other call of the request in slot r returning, with a value or an error.
Running(r) ==
    \/ SalGet(r, TRUE) \/ SalQuery(r, TRUE) \/ SalRelease(r) \/ SalSet(r, TRUE)
    \/ \E ok \in BOOLEAN : PageLookup(r, ok)

NextLive ==
    \/ \E r \in Clients : Start(r, "salaries", PyNone)
    \/ \E r \in Clients, lang \in Pages : Start(r, "page", lang)
    \/ \E r \in Clients : Acquiring(r)
    \/ \E r \in Clients : Running(r)

\* The pool serves its waiters in turn (asyncpg queues them), and every call
\* to Redis and to PostgreSQL returns.
SpecLive ==
    /\ InitLive
    /\ [][NextLive]_vars
    /\ \A r \in Clients : SF_vars(Acquiring(r)) /\ WF_vars(Running(r))

(***************************************************************************)
(* Restarts: the reference table changes between two runs of the process. *)
(***************************************************************************)
RefTables == {<<>>, <<Python>>, <<Python, Go>>, <<Go, Python>>}

InitRestart ==
    /\ variant \in {"modular", "monolith"}
    /\ now = Now0
    /\ \E ref \in RefTables : store = [FullStore EXCEPT !["programming_languages"] = ref]
    /\ languages = load_languages(store["programming_languages"])
    /\ cache = <<>>
    /\ req = [r \in Reqs |-> Idle]
    /\ endpoints \in {{<<"languages", PyNone>>},
                      {<<"languages", PyNone>>, <<"vacancy", PyNone>>},
                      {<<"salaries", PyNone>>},
                      {<<"page", PyStr("Python")>>}}
                     \cup {{e} : e \in Endpoints(variant) \cap {<<"resumes", PyNone>>}}

NextRestart ==
    \/ \E r \in Reqs : Start(r, "languages", PyNone)
    \/ \E r \in Reqs : Start(r, "vacancy", PyNone)
    \/ \E r \in Reqs : Start(r, "salaries", PyNone)
    \/ \E r \in Reqs : Start(r, "resumes", PyNone)
    \/ \E r \in Reqs : Start(r, "page", PyStr("Python"))
    \/ \E r \in Reqs : LangGet(r, TRUE)
    \/ \E r \in Reqs : LangSet(r, TRUE)
    \/ \E r \in Reqs : VacGet(r, TRUE)
    \/ \E r \in Reqs : VacAcquire(r, "")
    \/ \E r \in Reqs : VacFetchDaily(r, TRUE)
    \/ \E r \in Reqs : VacFetchHourly(r, TRUE)
    \/ \E r \in Reqs : VacRelease(r)
    \/ \E r \in Reqs : VacSet(r, TRUE)
    \/ \E r \in Reqs : SalGet(r, TRUE)
    \/ \E r \in Reqs : SalAcquire(r, "")
    \/ \E r \in Reqs : SalQuery(r, TRUE)
    \/ \E r \in Reqs : SalRelease(r)
    \/ \E r \in Reqs : SalSet(r, TRUE)
    \/ \E r \in Reqs : ResGet(r, TRUE)
    \/ \E r \in Reqs : ResAcquire(r, "")
    \/ \E r \in Reqs : ResFetchDaily(r, TRUE)
    \/ \E r \in Reqs : ResFetchHourly(r, TRUE)
    \/ \E r \in Reqs : ResRelease(r)
    \/ \E r \in Reqs : ResSet(r, TRUE)
    \/ \E r \in Reqs : PageAcquire(r, "")
    \/ \E r \in Reqs : PageLookup(r, TRUE)
    \/ \E r \in Reqs : PageGet(r, TRUE)
    \/ \E r \in Reqs : PageQuery(r, TRUE)
    \/ \E r \in Reqs : PageSet(r, TRUE)
    \/ \E r \in Reqs : PageRelease(r)
    \/ \E k \in DOMAIN cache : Expire(k)
    \/ Ingest(LanguagesTable)
    \/ \E ref \in RefTables : Migrate(ref)
    \/ Restart

SpecRestart == InitRestart /\ [][NextRestart]_vars

(***************************************************************************)
(* Encoding: the salaries endpoint over rows json.dumps accepts and rows  *)
(* it rejects.                                                             *)
(***************************************************************************)
InitEncoding ==
    /\ variant \in {"modular", "monolith"}
    /\ now = Now0
    /\ store \in {EmptyStore, FullStore}
    /\ languages = load_languages(store["programming_languages"])
    /\ cache = <<>>
    /\ req = [r \in Reqs |-> Idle]
    /\ endpoints = {<<"salaries", PyNone>>}

NextEncoding ==
    \/ \E r \in Reqs : Start(r, "salaries", PyNone)
    \/ \E r \in Reqs, ok \in BOOLEAN : SalGet(r, ok)
    \/ \E r \in Reqs, exc \in {"", "PostgresError", "OSError"} : SalAcquire(r, exc)
    \/ \E r \in Reqs, ok \in BOOLEAN : SalQuery(r, ok)
    \/ \E r \in Reqs : SalRelease(r)
    \/ \E r \in Reqs, ok \in BOOLEAN : SalSet(r, ok)
    \/ \E k \in DOMAIN cache : Expire(k)
    \/ \E value \in {PyInt(120), PyDecimal(120)} : IngestSalaries(value)

SpecEncoding == InitEncoding /\ [][NextEncoding]_vars

(***************************************************************************)
(* The language pages: known and unknown codes, over a populated database,*)
(* one whose hot_skills is still empty, and one whose latest hot_skills   *)
(* row holds an empty list and an empty text.                             *)
(***************************************************************************)
AllPages == Pages \cup {PyStr("go")}

FreshStore == [EmptyStore EXCEPT !["programming_languages"] = <<Python, Go>>]

QuietStore ==
    [FullStore EXCEPT !["hot_skills"] =
        <<[date |-> Now0 - 1, python |-> json_dumps(PyList(<<>>)), go |-> PyStr("")]>>]

InitPage ==
    /\ variant \in {"modular", "monolith"}
    /\ now = Now0
    /\ store \in {FullStore, FreshStore, QuietStore}
    /\ languages = load_languages(store["programming_languages"])
    /\ cache = <<>>
    /\ req = [r \in Reqs |-> Idle]
    /\ endpoints \in {E \in SUBSET {<<"page", lang>> : lang \in AllPages} :
                         Cardinality(E) \in 1..MaxKinds}

NextPage ==
    \/ \E r \in Reqs, lang \in AllPages : Start(r, "page", lang)
    \/ \E r \in Reqs, exc \in {"", "PostgresError", "OSError"} : PageAcquire(r, exc)
    \/ \E r \in Reqs, ok \in BOOLEAN : PageLookup(r, ok)
    \/ \E r \in Reqs, ok \in BOOLEAN : PageGet(r, ok)
    \/ \E r \in Reqs, ok \in BOOLEAN : PageQuery(r, ok)
    \/ \E r \in Reqs, ok \in BOOLEAN : PageSet(r, ok)
    \/ \E r \in Reqs : PageRelease(r)
    \/ \E k \in DOMAIN cache : Expire(k)

SpecPage == InitPage /\ [][NextPage]_vars

(***************************************************************************)
(* Properties.                                                             *)
(***************************************************************************)
ApiHandlers == {"salaries", "languages", "vacancy", "resumes"}

Status(rq) == rq.resp[1].status

\* C1: a request of a JSON endpoint that finds a live entry under its key
\* (whatever payload a handler wrote there, {} and [] included) returns that
\* payload and makes no Snapshot Store call: no pool acquire, no query.
C1_CacheHitShortCircuit ==
    \A r \in Reqs :
        (req[r].h \in ApiHandlers /\ req[r].found # PyNone)
            => /\ req[r].db = 0
               /\ req[r].pc = "done" => req[r].resp = <<JSONResponse(json_loads(req[r].found))>>

\* C2: two requests with different (kind, filter) never use the same cache key;
\* in particular the unfiltered vacancy-statistics request and the one with the
\* filter "all" do not.
C2_KeysDistinct ==
    \A r1, r2 \in Reqs :
        (/\ req[r1].key # ""
         /\ req[r2].key # ""
         /\ <<req[r1].h, req[r1].arg>> # <<req[r2].h, req[r2].arg>>)
            => req[r1].key # req[r2].key

\* C3: a vacancy-statistics request whose filter is neither a loaded language
\* code nor "software_developer" answers 200 with a map without metric keys, in
\* every cache state earlier requests have left.
C3_UnknownFilterEmpty ==
    \A r \in Reqs :
        (/\ req[r].h = "vacancy"
         /\ req[r].pc = "done"
         /\ req[r].raised = ""
         /\ req[r].arg.t = "str"
         /\ req[r].arg.v \notin Range(langs) \cup {"software_developer"})
            => req[r].resp = <<[status |-> 200, content |-> PyDict(<<>>)]>>

\* C4: every cache entry carries the TTL of its aggregate kind: "languages" no
\* expiry; "salaries", "resume-statistics" and every "vacancy-statistics:*" key
\* 3600 seconds; every "skills:*" key 86400 seconds.
C4_TtlClass ==
    \A k \in DOMAIN cache :
        /\ k \in {"languages", "salaries", "resume-statistics", "skills:python",
                  "vacancy-statistics:all", "vacancy-statistics:python",
                  "vacancy-statistics:software_developer"}
        /\ k = "languages" => cache[k].ex = [t |-> "None"]
        /\ k \in {"salaries", "resume-statistics", "vacancy-statistics:all",
                  "vacancy-statistics:python", "vacancy-statistics:software_developer"}
              => cache[k].ex = [t |-> "int", v |-> 3600]
        /\ k = "skills:python" => cache[k].ex = [t |-> "int", v |-> 86400]

\* Entries of the no-expiry class and of the daily class are both in the cache.
C4_Witness ==
    /\ "languages" \in DOMAIN cache
    /\ "skills:python" \in DOMAIN cache

\* C5: the step in which a Snapshot Store call (acquire or query) of a request
\* fails ends the request with status 500, leaves the cache as it was, and the
\* request has issued no cache set and holds no connection.
C5_StoreFailureNotCached ==
    [][\A r \in Reqs :
          (req[r].raised # "store" /\ req'[r].raised = "store")
              => /\ cache' = cache
                 /\ req'[r].pc = "done"
                 /\ req'[r].resp[1].status = 500
                 /\ req'[r].sets = 0
                 /\ ~req'[r].conn]_vars

\* A vacancy-statistics request failed at its second query while another key
\* is cached.
C5_Witness ==
    \E r \in Reqs :
        /\ req[r].h = "vacancy"
        /\ req[r].raised = "store"
        /\ req[r].db = 3
        /\ DOMAIN cache # {}

\* C6: in both deployments, a request whose cache set failed still returns the
\* result it computed, as a successful response.
C6_SetFailureIsolated ==
    \A r \in Reqs :
        (req[r].raised = "set" /\ req[r].pc = "done")
            => /\ Status(req[r]) = 200
               /\ req[r].resp[1].content =
                    IF req[r].h = "page"
                    THEN TemplateResponse(req[r].row[1], req[r].result).content
                    ELSE req[r].result

\* C7: a request whose cache get failed is served as on a miss: it does not end
\* in a failure.
C7_GetFailureIsMiss ==
    \A r \in Reqs :
        (req[r].raised = "get" /\ req[r].pc = "done") => Status(req[r]) = 200

\* A request that has computed its series from the Snapshot Store.
Computed(rq) ==
    /\ rq.h \in {"vacancy", "resumes"}
    /\ rq.pc \in {"release", "set", "done"}
    /\ rq.result # PyNone

\* The series of a computed result: <<table, column, [daily, hourly]>>.
SeriesOf(rq) ==
    IF rq.h = "resumes"
    THEN {<<"resumes", "software_developer", rq.result.v["resumes"]>>}
    ELSE {<<IF c = "software_developer" THEN ProfessionsTable ELSE LanguagesTable,
            c, rq.result.v[c]>> : c \in DOMAIN rq.result.v}

\* The rows of the last 30 days, and of the last 24 hours.
Last30Days(rows) == {i \in DOMAIN rows : rows[i].date >= now - 30 * 24}
Last24Hours(rows) == {i \in DOMAIN rows : rows[i].date >= now - 24}

\* C8: the daily series has at most one point per calendar date, in ascending
\* date order, and each point carries the value of a row of its date that has
\* the maximum timestamp among the rows of that date in the last 30 days.
C8_DailyUniqueness ==
    \A r \in Reqs : Computed(req[r]) =>
        \A s \in SeriesOf(req[r]) :
            LET rows == store[s[1]]
                column == s[2]
                pts == s[3].daily
            IN /\ \A i \in DOMAIN pts : pts[i][1].fmt = "YYYY-MM-DD"
               /\ \A i, j \in DOMAIN pts : i < j => pts[i][1].ymd < pts[j][1].ymd
               /\ \A i \in DOMAIN pts :
                    \E k \in Last30Days(rows) :
                        /\ rows[k].date \div 24 = pts[i][1].ymd
                        /\ rows[k][column] = pts[i][2]
                        /\ \A m \in Last30Days(rows) :
                              rows[m].date \div 24 = pts[i][1].ymd
                                  => rows[m].date <= rows[k].date

\* Three rows of the last 30 days, two of them of one date with different
\* timestamps and values, reduced to two daily points.
C8_Witness ==
    \E r \in Reqs :
        /\ Computed(req[r])
        /\ req[r].h = "vacancy"
        /\ Len(req[r].result.v["python"].daily) = 2
        /\ LET rows == store[LanguagesTable]
           IN /\ Cardinality(Last30Days(rows)) = 3
              /\ \E i, j \in Last30Days(rows) :
                    /\ rows[i].date \div 24 = rows[j].date \div 24
                    /\ rows[i].date < rows[j].date
                    /\ rows[i]["python"] # rows[j]["python"]

\* C9: the hourly series has exactly one point per row of the last 24 hours,
\* each with that row's timestamp and value, in ascending timestamp order.
C9_HourlyCompleteness ==
    \A r \in Reqs : Computed(req[r]) =>
        \A s \in SeriesOf(req[r]) :
            LET rows == store[s[1]]
                column == s[2]
                pts == s[3].hourly
                W == Last24Hours(rows)
            IN /\ Len(pts) = Cardinality(W)
               /\ \E p \in [DOMAIN pts -> W] :
                    /\ \A i, j \in DOMAIN pts : i # j => p[i] # p[j]
                    /\ \A i \in DOMAIN pts :
                          pts[i] = <<[fmt |-> "YYYY-MM-DD HH:MM:SS",
                                      ymd |-> rows[p[i]].date \div 24,
                                      hms |-> rows[p[i]].date % 24],
                                     rows[p[i]][column]>>
               /\ \A i, j \in DOMAIN pts :
                    i < j => pts[i][1].ymd * 24 + pts[i][1].hms
                               <= pts[j][1].ymd * 24 + pts[j][1].hms

\* Two rows inside the 24-hour window, one outside it: two hourly points.
C9_Witness ==
    \E r \in Reqs :
        /\ Computed(req[r])
        /\ req[r].h = "resumes"
        /\ Len(req[r].result.v["resumes"].hourly) = 2
        /\ Len(store["resumes"]) = 3
        /\ \E i \in DOMAIN store["resumes"] : store["resumes"][i].date = now - 25

\* Every result another computation over the same rows at the same instant
\* can give.
Recomputations(rq) ==
    IF rq.h = "resumes"
    THEN {PyDict([resumes |->
            [daily  |-> [i \in DOMAIN d |->
                            <<str(d[i].date), d[i]["software_developer"]>>],
             hourly |-> [i \in DOMAIN h |->
                            <<str(h[i].date), h[i]["software_developer"]>>]]]) :
            d \in resumes_fetch_daily(store["resumes"], now),
            h \in resumes_fetch_hourly(store["resumes"], now)}
    ELSE {PyDict(get_stat(rq.arg, <<"software_developer">>, d2, h2)
                 @@ get_stat(rq.arg, langs, d1, h1)) :
            d1 \in fetch_daily(store[LanguagesTable], langs, now),
            h1 \in fetch_hourly(store[LanguagesTable], langs, now),
            d2 \in fetch_daily(store[ProfessionsTable], <<"software_developer">>, now),
            h2 \in fetch_hourly(store[ProfessionsTable], <<"software_developer">>, now)}

\* C10: a second computation of the daily and hourly series over the same rows
\* at the same instant yields the series the first one yielded, also when two
\* rows of one date share the maximum timestamp and differ in value.
C10_Deterministic ==
    \A r \in Reqs : Computed(req[r]) =>
        \A again \in Recomputations(req[r]) : again = req[r].result

\* The next step of the handler invocation in slot r, whatever its outcome.
Handle(r) ==
    \E ok \in BOOLEAN, exc \in {"", "PostgresError", "OSError"} :
        \/ SalGet(r, ok) \/ SalAcquire(r, exc) \/ SalQuery(r, ok) \/ SalRelease(r)
        \/ SalSet(r, ok) \/ LangGet(r, ok) \/ LangSet(r, ok)
        \/ VacGet(r, ok) \/ VacAcquire(r, exc) \/ VacFetchDaily(r, ok)
        \/ VacFetchHourly(r, ok) \/ VacRelease(r) \/ VacSet(r, ok)
        \/ ResGet(r, ok) \/ ResAcquire(r, exc) \/ ResFetchDaily(r, ok)
        \/ ResFetchHourly(r, ok) \/ ResRelease(r) \/ ResSet(r, ok)
        \/ PageAcquire(r, exc) \/ PageLookup(r, ok) \/ PageGet(r, ok)
        \/ PageQuery(r, ok) \/ PageSet(r, ok) \/ PageRelease(r)

\* C11: no single-flight.  A request in flight can always take its next step,
\* whatever the other requests are doing (it waits only for a pool connection
\* when all are out), and a cache set that Redis accepts leaves the payload of
\* the request that issued it under the key, whatever was there: the last set
\* wins.
C11_NoSingleFlight ==
    /\ [](\A r \in Reqs :
            (/\ ~Free(r)
             /\ ~(req[r].pc = "acquire" /\ PoolUsed >= max_size)) => ENABLED Handle(r))
    /\ [][\A r \in Reqs :
            (/\ req[r].pc = "set"
             /\ req'[r].sets = req[r].sets + 1
             /\ req'[r].raised # "set")
                => /\ req[r].key \in DOMAIN cache'
                   /\ cache'[req[r].key].val = [t |-> "json", v |-> req[r].result]]_vars

\* Two requests for one key both missed, both queried the Snapshot Store, both
\* wrote the cache, and computed different payloads; the cache holds one of them.
C11_Witness ==
    \E r1, r2 \in Reqs :
        /\ r1 # r2
        /\ req[r1].key = req[r2].key
        /\ \A r \in {r1, r2} :
              /\ req[r].pc = "done"
              /\ req[r].found = PyNone
              /\ req[r].db > 1
              /\ req[r].sets = 1
              /\ req[r].raised = ""
        /\ req[r1].result # req[r2].result
        /\ req[r1].key \in DOMAIN cache
        /\ cache[req[r1].key].val = json_dumps(req[r1].result)

\* C12: at most 4 pool connections are held at any time; a request that needs
\* a connection while 4 are held stays where it is (it waits, it is not
\* failed); and a request that has returned, by any path, holds none, so that
\* with no request in flight no connection is held.
C12_PoolBound ==
    /\ [](/\ Cardinality({r \in DOMAIN req : req[r].conn}) <= 4
          /\ \A r \in DOMAIN req : req[r].pc \in {"idle", "done"} => ~req[r].conn)
    /\ [][\A r \in DOMAIN req :
            (/\ req[r].pc = "acquire"
             /\ Cardinality({q \in DOMAIN req : req[q].conn}) >= 4)
                => req'[r] = req[r]]_vars

\* Four connections are out and a fifth request is waiting for one.
C12_Witness ==
    /\ Cardinality({r \in DOMAIN req : req[r].conn}) = 4
    /\ \E r \in DOMAIN req : req[r].pc = "acquire" /\ ~req[r].conn

\* C13: no handler performs its cache get or its cache set while it holds a
\* Snapshot Store pool connection.
C13_CacheOutsideConnection ==
    [][\A r \in Reqs :
          (req[r].pc \in {"get", "set"} /\ req'[r] # req[r]) => ~req[r].conn]_vars

\* C14: a page request that finds its key skills:<code> live in the cache has
\* made no Snapshot Store call: no pool acquire and no query.
C14_SkillsHitNoDatabase ==
    \A r \in Reqs :
        (req[r].h = "page" /\ req[r].found # PyNone) => req[r].db = 0

\* C15: a request for the language list answers with the list the running
\* process loaded at its startup (the list the vacancy-statistics handler
\* takes its metric set from), also after a restart that loaded a changed
\* reference table.
C15_LanguagesOfThisStartup ==
    \A r \in Reqs :
        (req[r].h = "languages" /\ req[r].pc = "done" /\ req[r].raised = "")
            => req[r].resp = <<[status |-> 200, content |-> [t |-> "list", v |-> languages]]>>

\* A vacancy-statistics request whose result is complete: computed on a miss.
VacancyComputed(rq) ==
    /\ rq.h = "vacancy"
    /\ rq.pc \in {"release", "set"} \/ (rq.pc = "done" /\ rq.sets > 0)

\* The codes of the languages loaded at startup.
LoadedCodes == {languages[i].code : i \in DOMAIN languages}

\* C16: the map computed on a miss has exactly one key, the filter, when the
\* filter is a loaded language code or "software_developer"; without filter
\* its keys are the loaded language codes and "software_developer"; every
\* value has exactly the series "daily" and "hourly".
C16_ResultShape ==
    \A r \in Reqs : VacancyComputed(req[r]) =>
        LET query == req[r].arg
            result == req[r].result.v
        IN /\ (query.t = "str" /\ query.v \in LoadedCodes \cup {"software_developer"})
                 => DOMAIN result = {query.v}
           /\ query.t = "None" => DOMAIN result = LoadedCodes \cup {"software_developer"}
           /\ \A k \in DOMAIN result : DOMAIN result[k] = {"daily", "hourly"}

\* With two languages loaded, the request filtered by one of them has computed
\* a map with that single key.
C16_Witness ==
    \E r \in Reqs :
        /\ VacancyComputed(req[r])
        /\ req[r].arg = PyStr("python")
        /\ LoadedCodes = {"python", "go"}
        /\ DOMAIN req[r].result.v = {"python"}
        /\ req[r].result.v["python"].hourly # <<>>

\* C17: every query of a vacancy-statistics miss selects exactly the metric
\* columns requested: all metric columns of its table when no filter is given,
\* the one column of the filter when a filter is given.
C17_ColumnMinimality ==
    \A r \in Reqs : req[r].h = "vacancy" =>
        \A i \in DOMAIN req[r].src :
            LET table == req[r].src[i][1]
                selected == req[r].src[i][4]
            IN IF req[r].arg.t = "None"
               THEN Range(selected) = IF table = LanguagesTable THEN LoadedCodes
                                      ELSE {"software_developer"}
               ELSE selected = <<req[r].arg.v>>

\* A result json.dumps rejects: one of its values is a Decimal.
HasDecimal(value) ==
    /\ value.t = "dict"
    /\ \E k \in DOMAIN value.v : value.v[k] = [t |-> "Decimal", v |-> 120]

\* C18: the step of a request whose computed result cannot be serialized
\* issues no cache set and leaves the cache as it was (the previous entry, or
\* no entry), and ends the request with a failure (500): it is neither
\* answered as a success nor tried again.
C18_EncodingFailureNotCached ==
    [][\A r \in Reqs :
          (req[r].pc = "set" /\ HasDecimal(req[r].result) /\ req'[r] # req[r])
              => /\ cache' = cache
                 /\ req'[r].sets = req[r].sets
                 /\ req'[r].pc = "done"
                 /\ req'[r].resp[1].status = 500]_vars

\* A request failed at the encoding of its result while the key holds the
\* entry another request wrote from an earlier row.
C18_Witness ==
    \E r \in Reqs :
        /\ req[r].raised = "encode"
        /\ req[r].pc = "done"
        /\ req[r].sets = 0
        /\ HasDecimal(req[r].result)
        /\ "salaries" \in DOMAIN cache
        /\ cache["salaries"].val = json_dumps(PyDict([python |-> PyInt(100)]))

\* The codes of the reference table.
ReferenceCodes ==
    {store["programming_languages"][i].code : i \in DOMAIN store["programming_languages"]}

\* C19: a page request for a code that, lower-cased, is not in the reference
\* table ends with the explicit not-found response (404, not 500), has made
\* no cache get and no cache set, and holds no pool connection.
C19_PageNotFound ==
    \A r \in Reqs :
        (/\ req[r].h = "page"
         /\ req[r].pc = "done"
         /\ req[r].raised = ""
         /\ lower(req[r].arg.v) \notin ReferenceCodes)
            => /\ req[r].resp = <<[status |-> 404, content |-> PyStr("not found")]>>
               /\ req[r].key = ""
               /\ req[r].found = PyNone
               /\ req[r].sets = 0
               /\ req[r].src = <<>>
               /\ ~req[r].conn

\* The page of an unknown code was answered while the reference table holds
\* languages and the page of a known one is cached.
C19_Witness ==
    \E r \in Reqs :
        /\ req[r].h = "page"
        /\ req[r].arg = PyStr("rust")
        /\ req[r].pc = "done"
        /\ req[r].db = 2
        /\ Status(req[r]) = 404
        /\ ReferenceCodes = {"python", "go"}
        /\ "skills:python" \in DOMAIN cache

\* A page request that missed the cache and has read hot_skills.
SkillsMiss(rq) == rq.h = "page" /\ rq.src # <<>>

\* The value of the language's column in the row of hot_skills with the
\* latest date, as the request read it; None when the table had no row.
LatestSkills(rq) ==
    LET rows == rq.src[1][2]
        code == rq.row[1].code
    IN IF rows = <<>> THEN PyNone
       ELSE LET i == CHOOSE i \in DOMAIN rows :
                        \A j \in DOMAIN rows : rows[j].date <= rows[i].date
            IN rows[i][code]

SalariesMiss(rq) == rq.h = "salaries" /\ rq.src # <<>>

\* C21: on a miss the salaries result is the record of the columns of the one
\* row with the greatest date, without the date ({} when the table is empty);
\* the response carries that record, and the set Redis accepts leaves that
\* record, and so no date, in the cache.
C21_SalariesShape ==
    /\ [](\A r \in Reqs : SalariesMiss(req[r]) =>
            LET rows == req[r].src[1][2]
                result == req[r].result
            IN /\ result.t = "dict"
               /\ "date" \notin DOMAIN result.v
               /\ rows = <<>> => result.v = <<>>
               /\ rows # <<>> =>
                    \E i \in DOMAIN rows :
                        /\ \A j \in DOMAIN rows : rows[j].date <= rows[i].date
                        /\ DOMAIN result.v = DOMAIN rows[i] \ {"date"}
                        /\ \A c \in DOMAIN result.v : result.v[c] = rows[i][c]
               /\ (req[r].pc = "done" /\ req[r].raised = "")
                    => req[r].resp = <<[status |-> 200, content |-> result]>>)
    /\ [](("salaries" \in DOMAIN cache) => "date" \notin DOMAIN cache["salaries"].val.v.v)
    /\ [][\A r \in Reqs :
            (/\ req[r].h = "salaries"
             /\ req[r].pc = "set"
             /\ req'[r].sets = req[r].sets + 1
             /\ req'[r].raised # "set")
                => /\ "salaries" \in DOMAIN cache'
                   /\ cache'["salaries"].val = [t |-> "json", v |-> req[r].result]]_vars

\* A request read a table of two rows and answered and cached the record of
\* the later one.
C21_Witness ==
    \E r \in Reqs :
        /\ SalariesMiss(req[r])
        /\ req[r].pc = "done"
        /\ req[r].raised = ""
        /\ Len(req[r].src[1][2]) = 2
        /\ req[r].result = PyDict([python |-> PyInt(120)])
        /\ "salaries" \in DOMAIN cache
        /\ cache["salaries"].val = json_dumps(PyDict([python |-> PyInt(120)]))

\* C22: the Snapshot Store is changed by no request of any handler and by
\* neither startup nor shutdown: a step that changes a table is a step of the
\* outside (the ingest, the hand-edited reference table) and leaves every
\* request, the loaded languages and the cache as they were.
C22_StoreReadOnly ==
    [][store' # store => (req' = req /\ languages' = languages /\ cache' = cache)]_vars

\* The process has served requests from the database, has been restarted with
\* the cache keeping their payloads, and the database is as it was.
C22_Witness ==
    /\ store = FullStore
    /\ \A r \in Reqs : req[r] = Idle
    /\ DOMAIN cache = {"languages", "vacancy-statistics:all"}

\* C23: app.state.languages is assigned only by a startup, when no request is
\* being served, in ascending id order (python has id 1, go id 2); no handler
\* step changes it, and a language-list request that misses the cache takes
\* exactly that list.
C23_LanguagesReadOnly ==
    /\ [][languages' # languages =>
            \A r \in Reqs : req[r].pc \in {"idle", "done"} /\ req'[r].pc = "idle"]_vars
    /\ [](\A i, j \in DOMAIN languages :
            (languages[i].code = "python" /\ languages[j].code = "go") => i < j)
    /\ [](\A r \in Reqs :
            (/\ req[r].h = "languages"
             /\ req[r].pc \in {"set", "done"}
             /\ req[r].result # [t |-> "None"])
                => req[r].result = [t |-> "list", v |-> languages])

\* The reference table stores go before python; the process loaded python
\* before go, and a language-list request computed that list.
C23_Witness ==
    /\ store["programming_languages"] = <<Go, Python>>
    /\ Len(languages) = 2
    /\ languages[1].code = "python"
    /\ \E r \in Reqs :
          /\ req[r].h = "languages"
          /\ req[r].pc = "done"
          /\ req[r].found = PyNone
          /\ req[r].result = PyList(languages)

\* The queries a request has issued, in order: <<table, kind>>.
QueriesOf(rq) == [i \in DOMAIN rq.src |-> <<rq.src[i][1], rq.src[i][5]>>]

\* C24: a vacancy-statistics miss issues, without filter, the daily and the
\* hourly query on the languages table and then on the professions table;
\* with a language filter the two on the languages table; with the filter
\* "software_developer" the two on the professions table; with any other
\* filter none.  The request acquires one connection and holds it at every
\* query.
C24_QuerySet ==
    \A r \in Reqs : req[r].h = "vacancy" =>
        /\ VacancyComputed(req[r]) =>
              /\ QueriesOf(req[r]) =
                    IF req[r].arg.t = "None"
                    THEN <<<<"vacancies_statistics.languages", "daily">>,
                           <<"vacancies_statistics.languages", "hourly">>,
                           <<"vacancies_statistics.professions", "daily">>,
                           <<"vacancies_statistics.professions", "hourly">>>>
                    ELSE IF req[r].arg.v \in LoadedCodes
                    THEN <<<<"vacancies_statistics.languages", "daily">>,
                           <<"vacancies_statistics.languages", "hourly">>>>
                    ELSE IF req[r].arg.v = "software_developer"
                    THEN <<<<"vacancies_statistics.professions", "daily">>,
                           <<"vacancies_statistics.professions", "hourly">>>>
                    ELSE <<>>
              /\ req[r].db = 1 + Len(req[r].src)
        /\ req[r].pc \in {"lang_daily", "lang_hourly", "prof_daily", "prof_hourly"}
              => /\ req[r].conn
                 /\ req[r].db = 1 + Len(req[r].src)

\* One request without filter has issued its four queries while a request
\* with an unknown filter has issued none.
C24_Witness ==
    \E r1, r2 \in Reqs :
        /\ VacancyComputed(req[r1]) /\ VacancyComputed(req[r2])
        /\ req[r1].arg = PyNone
        /\ Len(req[r1].src) = 4
        /\ req[r2].arg = PyStr("all")
        /\ req[r2].found = PyNone
        /\ req[r2].db = 1
        /\ req[r2].src = <<>>

\* C25: a cache set is issued only by a request that found nothing under its
\* key at its cache get (a request that found an entry issues no set, so a hit
\* leaves payload and TTL alone) and whose Snapshot Store reads all succeeded;
\* and a step that changes the Snapshot Store leaves the cache as it was.
C25_DemandDriven ==
    [][/\ \A r \in Reqs :
            req'[r].sets = req[r].sets + 1
                => /\ req[r].found = [t |-> "None"]
                   /\ req[r].raised = ""
       /\ store' # store => cache' = cache]_vars

\* C26: in every result computed on a miss, whenever the hourly series of a
\* metric has points on the date of the last daily point, that daily point
\* carries the value of the latest of those hourly points.
C26_DailyHourlyAligned ==
    \A r \in Reqs : Computed(req[r]) =>
        \A s \in SeriesOf(req[r]) :
            LET daily == s[3].daily
                hourly == s[3].hourly
            IN daily # <<>> =>
                 LET day == daily[Len(daily)][1].ymd
                     sameDay == {i \in DOMAIN hourly : hourly[i][1].ymd = day}
                 IN sameDay # {} =>
                      LET last == CHOOSE i \in sameDay : \A j \in sameDay : j <= i
                      IN daily[Len(daily)][2] = hourly[last][2]

\* The NOW() of the latest Snapshot Store read of a request.
ReadAt(rq) == rq.src[Len(rq.src)][3]

\* C27: a cache set never replaces the payload of a request by the payload of
\* a request that read the Snapshot Store earlier: when the cache holds what
\* request r2 computed and request r1 overwrites it, r1's reads are at least
\* as recent as r2's.
C27_FreshnessMonotone ==
    [][\A r1, r2 \in Reqs :
          (/\ r1 # r2
           /\ req[r1].pc = "set"
           /\ req'[r1].sets = req[r1].sets + 1
           /\ cache' # cache
           /\ req[r1].src # <<>>
           /\ req[r2].pc = "done"
           /\ req[r2].sets = 1
           /\ req[r2].src # <<>>
           /\ req[r2].key = req[r1].key
           /\ req[r1].key \in DOMAIN cache
           /\ cache[req[r1].key].val = [t |-> "json", v |-> req[r2].result])
              => ReadAt(req[r1]) >= ReadAt(req[r2])]_vars

\* The cache content a request met at its cache get, as far as its key goes.
CacheMet(rq) ==
    IF rq.found = PyNone THEN <<>>
    ELSE [k \in {rq.key} |-> [val |-> rq.found, ex |-> PyNone]]

\* C28: on the shared endpoints the two deployments take the same branch on
\* every cache content a request can meet, empty payloads ({} and [])
\* included: either both treat it as a hit and return the same content, or
\* both treat it as a miss; hence the same responses, queries and sets.
C28_VariantsEquivalent ==
    \A r \in Reqs :
        (req[r].h \in {"salaries", "languages", "vacancy", "page"} /\ req[r].key # "")
            => LET c == CacheMet(req[r])
                   key == req[r].key
               IN /\ Truthy(cached_value_in("modular", c, key))
                        = Truthy(cached_value_in("monolith", c, key))
                  /\ Truthy(cached_value_in("monolith", c, key))
                        => cached_content_in("modular", c, key)
                             = cached_content_in("monolith", c, key)

====
